---- MODULE Spec2Model ----
(***************************************************************************)
(* A model of terrain_carver.py (class TerrainCarver): the road carver     *)
(* rasterize_roads, the elevation conditioner process_elevation_data /     *)
(* fill_voids, the grid-to-solid mesher create_mesh, the DEM and road      *)
(* downloaders, and the pipeline run() that chains them.                   *)
(*                                                                         *)
(* numpy arrays are objects on a heap (a sequence of grids, a reference is *)
(* an index into it, 0 is None), so that two names for one array are       *)
(* distinguishable from two arrays with equal contents.  A grid is a       *)
(* record [rows, cols, d] with d the row-major (ravel) sequence of its     *)
(* samples.  A sample is an integer, or one of the IEEE specials NaN, Inf, *)
(* NegInf.  Quantities of create_mesh that are quotients (normalised       *)
(* elevation, coordinates) are exact rationals <<n, d>>; d = 0 encodes the *)
(* IEEE results of a division by zero: <<0,0>> is NaN, <<1,0>> is inf.     *)
(***************************************************************************)
EXTENDS Integers, Sequences, FiniteSets, TLC

VARIABLES
    pc,              \* position of the running call / pipeline stage
    config,          \* self.config
    heap,            \* the numpy arrays allocated so far
    elevation_data,  \* self.elevation_data (a reference)
    dem_file,        \* self.dem_file
    arg,             \* the array reference passed to the method under call
    ret,             \* the reference a method returned
    roads,           \* roads_gdf: None, or the footprints of its road segments
    built,           \* create_mesh: the buffers assembled before trimesh
    mesh,            \* the trimesh object create_mesh returned, or NoMesh
    error,           \* the exception that ended the call, or "none"
    exported,        \* the file export_stl wrote, or "none"
    given,           \* contents of the input array when the call started
    calls,           \* number of completed calls of the method under call
    trace,           \* run(): the methods called so far, in order
    requests         \* the requests sent to outside services so far, in
                     \* order, each with what came back

vars == <<pc, config, heap, elevation_data, dem_file, arg, ret, roads, built,
          mesh, error, exported, given, calls, trace, requests>>

----------------------------------------------------------------------------
(* Bounds of the model *)

MaxDim == 4          \* create_mesh is called on grids of up to MaxDim x MaxDim
MaxCondDim == 3      \* the conditioner is called on grids of up to this size
MaxCondCells == 9    \* ... of at most this many samples in all
MaxVoid == 2         \* ... with at most this many void samples
MaxCarveDim == 2     \* rasterize_roads is called on grids of up to this size
MaxSmooth == 1       \* smooth_iterations ranges over 0 .. MaxSmooth
MaxCalls == 2        \* the conditioner is applied at most MaxCalls times in a row
MaxRunDim == 2       \* run() loads grids of up to MaxRunDim x MaxRunDim
MaxRoads == 2        \* number of road segments in a road set

----------------------------------------------------------------------------
(* IEEE floating point values as numpy produces them *)

NaN == 99999
Inf == 88888
NegInf == 0 - Inf

IsNaN(v) == v = NaN
IsFinite(v) == v # NaN /\ v # Inf /\ v # NegInf

\* a - b on float samples
FSub(a, b) ==
    IF IsNaN(a) \/ IsNaN(b) THEN NaN
    ELSE IF IsFinite(a) /\ IsFinite(b) THEN a - b
    ELSE IF IsFinite(b) THEN a
    ELSE IF IsFinite(a) THEN (IF b = Inf THEN NegInf ELSE Inf)
    ELSE IF a = b THEN NaN
    ELSE a

QNaN == <<0, 0>>
QIsNaN(q) == q[2] = 0 /\ q[1] = 0
QIsFinite(q) == q[2] # 0
QEq(p, q) == QIsFinite(p) /\ QIsFinite(q) /\ p[1] * q[2] = q[1] * p[2]
QLeq(p, q) == QIsFinite(p) /\ QIsFinite(q) /\ p[1] * q[2] <= q[1] * p[2]

Sign(a) == IF a > 0 THEN 1 ELSE IF a < 0 THEN 0 - 1 ELSE 0

\* a / b on float samples, as an exact rational or an IEEE special
FDiv(a, b) ==
    IF IsNaN(a) \/ IsNaN(b) THEN QNaN
    ELSE IF ~IsFinite(a) /\ ~IsFinite(b) THEN QNaN
    ELSE IF ~IsFinite(b) THEN <<0, 1>>
    ELSE IF b = 0 THEN <<Sign(a), 0>>
    ELSE IF ~IsFinite(a) THEN <<Sign(a) * Sign(b), 0>>
    ELSE <<a * Sign(b), b * Sign(b)>>

\* q * (n / d) for a positive finite factor n / d
QScale(q, n, d) == IF q[2] = 0 THEN q ELSE <<q[1] * n, q[2] * d>>
\* q + b for a finite integer b
QAdd(q, b) == IF q[2] = 0 THEN q ELSE <<q[1] + b * q[2], q[2]>>

Min2(a, b) == IF a <= b THEN a ELSE b

----------------------------------------------------------------------------
(* Grids *)

Size(g) == g.rows * g.cols
Cells(g) == 1 .. Size(g)
RowOf(g, k) == (k - 1) \div g.cols
ColOf(g, k) == (k - 1) % g.cols
SameShape(g, h) == g.rows = h.rows /\ g.cols = h.cols

\* np.nanmin / np.nanmax of a non-empty array: NaN samples are ignored, and
\* the result is NaN when every sample is NaN
NonNaN(g) == {g.d[k] : k \in {c \in Cells(g) : ~IsNaN(g.d[c])}}
nanmin(g) == IF NonNaN(g) = {} THEN NaN
             ELSE CHOOSE m \in NonNaN(g) : \A x \in NonNaN(g) : m <= x
nanmax(g) == IF NonNaN(g) = {} THEN NaN
             ELSE CHOOSE m \in NonNaN(g) : \A x \in NonNaN(g) : m >= x

----------------------------------------------------------------------------
(* create_mesh: the grid-to-solid mesher *)

\* (mutant) the cell is split along its other diagonal, v1 - v4
FacesTopCellOtherDiagonal(cols, i, j, second) ==
    LET v1 == i * cols + j
        v2 == i * cols + (j + 1)
        v3 == (i + 1) * cols + j
        v4 == (i + 1) * cols + (j + 1)
    IN  IF second THEN <<v1, v4, v3>> ELSE <<v1, v2, v4>>

\* Two triangles per grid cell, cells visited row by row (the loops over
\* i in range(rows - 1), j in range(cols - 1)); vertex indices are 0-based
FacesTopCell(cols, i, j, second) ==
    LET v1 == i * cols + j
        v2 == i * cols + (j + 1)
        v3 == (i + 1) * cols + j
        v4 == (i + 1) * cols + (j + 1)
    IN  IF second THEN <<v2, v4, v3>> ELSE <<v1, v2, v3>>

\* (mutant) only the first triangle of every cell
FacesTopOneTriangle(rows, cols) ==
    IF rows < 2 \/ cols < 2 THEN << >>
    ELSE [k \in 1 .. (rows - 1) * (cols - 1) |->
            FacesTopCell(cols, (k - 1) \div (cols - 1), (k - 1) % (cols - 1),
                         FALSE)]

FacesTop(rows, cols) ==
    IF rows < 2 \/ cols < 2 THEN << >>
    ELSE [k \in 1 .. 2 * (rows - 1) * (cols - 1) |->
            LET cell == (k - 1) \div 2
            IN  FacesTopCell(cols, cell \div (cols - 1), cell % (cols - 1),
                             (k - 1) % 2 = 1)]

\* (mutant) the bottom faces keep the winding of the top faces
FacesBottomNoSwap(faces_top, num_top_verts) ==
    [k \in 1 .. Len(faces_top) |->
        <<faces_top[k][1] + num_top_verts,
          faces_top[k][2] + num_top_verts,
          faces_top[k][3] + num_top_verts>>]

\* faces_top + num_top_verts, then columns [0, 2, 1]
FacesBottom(faces_top, num_top_verts) ==
    [k \in 1 .. Len(faces_top) |->
        <<faces_top[k][1] + num_top_verts,
          faces_top[k][3] + num_top_verts,
          faces_top[k][2] + num_top_verts>>]

\* (mutant) all four walls are wound like the front wall
WallPairOneWinding(v1_top, v2_top, num_top_verts, frontlike, second) ==
    LET v1_bot == v1_top + num_top_verts
        v2_bot == v2_top + num_top_verts
    IN  IF second THEN <<v2_top, v1_bot, v2_bot>>
                  ELSE <<v1_top, v1_bot, v2_top>>

\* One pair of wall triangles; the front and right walls use the first
\* winding, the back and left walls the second
WallPair(v1_top, v2_top, num_top_verts, frontlike, second) ==
    LET v1_bot == v1_top + num_top_verts
        v2_bot == v2_top + num_top_verts
    IN  IF frontlike
        THEN (IF second THEN <<v2_top, v1_bot, v2_bot>>
                        ELSE <<v1_top, v1_bot, v2_top>>)
        ELSE (IF second THEN <<v2_top, v2_bot, v1_bot>>
                        ELSE <<v1_top, v2_top, v1_bot>>)

\* The four wall strips, in the order the code appends them: front (first
\* row), back (last row), left (first column), right (last column)
FacesFront(rows, cols, n) ==
    [k \in 1 .. 2 * (IF cols > 0 THEN cols - 1 ELSE 0) |->
        LET j == (k - 1) \div 2
        IN  WallPair(j, j + 1, n, TRUE, (k - 1) % 2 = 1)]

FacesBack(rows, cols, n) ==
    [k \in 1 .. 2 * (IF cols > 0 THEN cols - 1 ELSE 0) |->
        LET j == (k - 1) \div 2
            base_idx == (rows - 1) * cols
        IN  WallPair(base_idx + j, base_idx + j + 1, n, FALSE, (k - 1) % 2 = 1)]

FacesLeft(rows, cols, n) ==
    [k \in 1 .. 2 * (IF rows > 0 THEN rows - 1 ELSE 0) |->
        LET i == (k - 1) \div 2
        IN  WallPair(i * cols, (i + 1) * cols, n, FALSE, (k - 1) % 2 = 1)]

\* (mutant) the right wall is walked one column too far to the left
FacesRightOffByOne(rows, cols, n) ==
    [k \in 1 .. 2 * (IF rows > 0 THEN rows - 1 ELSE 0) |->
        LET i == (k - 1) \div 2
        IN  WallPair(i * cols + (cols - 2), (i + 1) * cols + (cols - 2), n,
                     TRUE, (k - 1) % 2 = 1)]

FacesRight(rows, cols, n) ==
    [k \in 1 .. 2 * (IF rows > 0 THEN rows - 1 ELSE 0) |->
        LET i == (k - 1) \div 2
        IN  WallPair(i * cols + (cols - 1), (i + 1) * cols + (cols - 1), n,
                     TRUE, (k - 1) % 2 = 1)]

\* (mutant) the right wall is forgotten
FacesSidesNoRight(rows, cols, n) ==
    FacesFront(rows, cols, n) \o FacesBack(rows, cols, n)
        \o FacesLeft(rows, cols, n)

FacesSides(rows, cols, n) ==
    FacesFront(rows, cols, n) \o FacesBack(rows, cols, n)
        \o FacesLeft(rows, cols, n) \o FacesRight(rows, cols, n)

\* np.linspace(0, stop, num)[k] for 0 <= k < num
Linspace(stop, num, k) == IF num = 1 THEN <<0, 1>> ELSE <<k * stop, num - 1>>

\* (mutant) the offset elevation is divided by elev_max, not by elev_range
NormalizedByMax(g, k) ==
    FDiv(FSub(g.d[k], nanmin(g)), nanmax(g))

\* normalized_elev = (elevation_data - elev_min) / elev_range, no guard on
\* elev_range
Normalized(g, k) ==
    LET elev_min == nanmin(g)
        elev_max == nanmax(g)
        elev_range == FSub(elev_max, elev_min)
    IN  FDiv(FSub(g.d[k], elev_min), elev_range)

\* max_relief = min(model_width, model_height) * 0.3;
\* zz = normalized_elev * max_relief * vertical_scale + base_thickness
\* (vertical_scale is kept in tenths: 15 is 1.5)
Zz(g, cfg, k) ==
    QAdd(QScale(Normalized(g, k),
                3 * Min2(cfg.model_width_mm, cfg.model_height_mm)
                  * cfg.vertical_scale10,
                100),
         cfg.base_thickness_mm)

\* vertices_top[k] (k is 1-based here; the vertex index in faces is k - 1):
\* x from linspace over the columns, y flipped, z from zz
VertexTop(g, cfg, k) ==
    LET yk == Linspace(cfg.model_height_mm, g.rows, RowOf(g, k))
    IN  [x |-> Linspace(cfg.model_width_mm, g.cols, ColOf(g, k)),
         y |-> <<cfg.model_height_mm * yk[2] - yk[1], yk[2]>>,
         z |-> Zz(g, cfg, k)]

VerticesTop(g, cfg) == [k \in 1 .. Size(g) |-> VertexTop(g, cfg, k)]

\* vertices_bottom = vertices_top.copy(); vertices_bottom[:, 2] = 0
VerticesBottom(vt) == [k \in 1 .. Len(vt) |-> [vt[k] EXCEPT !.z = <<0, 1>>]]

VertexFinite(v) == QIsFinite(v.x) /\ QIsFinite(v.y) /\ QIsFinite(v.z)

\* trimesh.Trimesh(process=False), mesh.process(), mesh.fix_normals(): the
\* library drops non-finite vertices and the faces that use them and does
\* not raise; its vertex merging and re-winding are not modelled
TrimeshProcess(vertices, faces) ==
    LET bad == {k \in 1 .. Len(vertices) : ~VertexFinite(vertices[k])}
        \* the index of vertex v (0-based) once the bad ones are removed
        reindex(v) == Cardinality({k \in 1 .. v + 1 : k \notin bad}) - 1
        kept == SelectSeq(faces,
                    LAMBDA f : \A c \in 1 .. 3 : (f[c] + 1) \notin bad)
    IN  [none     |-> FALSE,
         vertices |-> SelectSeq(vertices, VertexFinite),
         faces    |-> [k \in 1 .. Len(kept) |->
                         <<reindex(kept[k][1]), reindex(kept[k][2]),
                           reindex(kept[k][3])>>]]

NoMesh == [none |-> TRUE, vertices |-> << >>, faces |-> << >>]

NoBuilt == [vertices |-> << >>, faces_top |-> << >>, faces_bottom |-> << >>,
            faces_sides |-> << >>, faces |-> << >>]

\* The empty faces_top of a grid without a quad is the 1-dimensional
\* np.array([]): indexing it with [:, [0, 2, 1]] raises IndexError
\* (mutant) faces_top built as an empty (0, 3) array, which can be indexed
BottomIndexableAlways(faces_top) == TRUE

BottomIndexable(faces_top) == Len(faces_top) > 0

\* The whole of create_mesh on grid g: the exception it ends with or
\* "none", the buffers it assembled, the mesh it returns
create_mesh(g, cfg) ==
    IF Size(g) = 0
    THEN [error |-> "ValueError", built |-> NoBuilt, mesh |-> NoMesh]
    ELSE
    LET vertices_top == VerticesTop(g, cfg)
        faces_top == FacesTop(g.rows, g.cols)
        num_top_verts == Len(vertices_top)
        vertices == vertices_top \o VerticesBottom(vertices_top)
    IN  IF ~BottomIndexable(faces_top)
        THEN [error |-> "IndexError",
              built |-> [NoBuilt EXCEPT !.vertices = vertices],
              mesh  |-> NoMesh]
        ELSE
        LET faces_bottom == FacesBottom(faces_top, num_top_verts)
            faces_sides == FacesSides(g.rows, g.cols, num_top_verts)
            faces == faces_top \o faces_bottom \o faces_sides
        IN  [error |-> "none",
             built |-> [vertices |-> vertices, faces_top |-> faces_top,
                        faces_bottom |-> faces_bottom,
                        faces_sides |-> faces_sides, faces |-> faces],
             mesh  |-> TrimeshProcess(vertices, faces)]

----------------------------------------------------------------------------
(* Configurations and input grids *)

\* The default configuration of load_config (vertical_scale 1.5 is 15
\* tenths; a key or file name that is None is FALSE, one that is set TRUE)
DefaultConfig ==
    [model_width_mm |-> 200, model_height_mm |-> 200,
     base_thickness_mm |-> 5, vertical_scale10 |-> 15,
     smooth_iterations |-> 1, data_source |-> "py3dep",
     opentopography_api_key |-> FALSE,
     include_roads |-> FALSE, road_depth_m |-> 2,
     roads_geojson_file |-> FALSE]

\* roads_gdf is None, or a GeoDataFrame of road segments.  A segment is kept
\* as its footprint: the set of grid cells that its buffered polygon covers
\* once rasterized (empty for a road that misses the grid)
NoRoads == [none |-> TRUE, segs |-> {}]
Gdf(segs) == [none |-> FALSE, segs |-> segs]

RowCells(r, c, i) == {i * c + j + 1 : j \in 0 .. c - 1}
ColCells(r, c, j) == {i * c + j + 1 : i \in 0 .. r - 1}
Footprints(r, c) ==
    {RowCells(r, c, i) : i \in 0 .. r - 1}
        \cup {ColCells(r, c, j) : j \in 0 .. c - 1} \cup {{}}
RoadSets(r, c) ==
    {NoRoads} \cup {Gdf(S) : S \in {T \in SUBSET Footprints(r, c) :
                                        Cardinality(T) <= MaxRoads}}

\* A grid of r x c samples, all a except sample p, which is b
PGrid(r, c, a, b, p) ==
    [rows |-> r, cols |-> c, d |-> [k \in 1 .. r * c |-> IF k = p THEN b ELSE a]]

PatternGrids(dims, vals) ==
    UNION {UNION {{PGrid(r, c, a, b, p) : p \in 1 .. r * c, a \in vals, b \in vals}
                  : c \in dims} : r \in dims}

EmptyGrids(dims) ==
    {[rows |-> 0, cols |-> c, d |-> << >>] : c \in dims}
        \cup {[rows |-> r, cols |-> 0, d |-> << >>] : r \in dims}

\* The 4 x 4 grid of the scenario: 10 on the inner 2 x 2 block, 0 around it
ScenarioGrid ==
    [rows |-> 4, cols |-> 4,
     d |-> <<0, 0, 0, 0,  0, 10, 10, 0,  0, 10, 10, 0,  0, 0, 0, 0>>]

ScenarioConfig ==
    [DefaultConfig EXCEPT !.model_width_mm = 100, !.model_height_mm = 100,
                          !.base_thickness_mm = 5, !.vertical_scale10 = 10]

\* A 2 x 3 grid of elevations between -5 m and 20 m
ReliefGrid ==
    [rows |-> 2, cols |-> 3, d |-> <<0 - 5, 0, 20,  7, 20, 0 - 5>>]

MeshVals == {0, 10, NaN, Inf}
MeshGrids == PatternGrids(1 .. MaxDim, MeshVals) \cup EmptyGrids(0 .. MaxDim)
                 \cup {ScenarioGrid, ReliefGrid}
MeshConfigs ==
    {ScenarioConfig, DefaultConfig,
     [DefaultConfig EXCEPT !.model_height_mm = 100, !.base_thickness_mm = 0]}

----------------------------------------------------------------------------
(* A call of create_mesh(elevation_data) on its own *)

\* elevation_data defaults to self.elevation_data when None is passed
MeshInput == IF arg = 0 THEN heap[elevation_data] ELSE heap[arg]

InitMesh ==
    /\ pc = "call"
    /\ config \in MeshConfigs
    /\ \E g \in MeshGrids : heap = <<g>> /\ given = g
    /\ elevation_data = 1
    /\ arg \in {0, 1}
    /\ dem_file = "none" /\ ret = 0 /\ roads = NoRoads
    /\ built = NoBuilt /\ mesh = NoMesh /\ error = "none"
    /\ exported = "none" /\ calls = 0 /\ trace = << >>
    /\ requests = << >>

CreateMesh ==
    /\ pc = "call"
    /\ \E r \in {create_mesh(MeshInput, config)} :
           /\ built' = r.built
           /\ mesh' = r.mesh
           /\ error' = r.error
           /\ pc' = IF r.error = "none" THEN "returned" ELSE "raised"
    /\ calls' = calls + 1
    /\ UNCHANGED <<requests, config, heap, elevation_data, dem_file, arg, ret, roads,
                   exported, given, trace>>

NextMesh == CreateMesh

SpecMesh == InitMesh /\ [][NextMesh]_vars

----------------------------------------------------------------------------
(* rasterize_roads: the road rasterizer and carver *)

\* rasterize(shapes, out_shape=elevation_data.shape, fill=0): the cells
\* covered by any buffered road
RoadMask(rd, g) == (UNION rd.segs) \cap Cells(g)

\* (mutant) the carved value is floored at the lowest input sample
CarveWhereClamped(mask, g, depth) ==
    [g EXCEPT !.d = [k \in Cells(g) |->
        IF k \in mask /\ IsFinite(g.d[k])
        THEN (IF g.d[k] - depth < nanmin(g) THEN nanmin(g) ELSE g.d[k] - depth)
        ELSE g.d[k]]]

\* np.where(road_mask == 1, elevation_data - road_depth_m, elevation_data)
CarveWhere(mask, g, depth) ==
    [g EXCEPT !.d = [k \in Cells(g) |->
        IF k \in mask THEN FSub(g.d[k], depth) ELSE g.d[k]]]

\* roads_gdf is None or len(roads_gdf) == 0
SkipsCarving(rd) == rd.none \/ Cardinality(rd.segs) = 0

\* The whole of rasterize_roads(rd, elevation_data = h[ref], ..., depth) on
\* heap h: the heap it leaves and the reference it returns.  Without roads
\* it returns its argument itself; otherwise it allocates the copy made
\* first (never used again) and the array np.where builds
rasterize_roads(h, ref, rd, depth) ==
    IF SkipsCarving(rd)
    THEN [heap |-> h, ret |-> ref]
    ELSE LET carved_elevation == h[ref]
             road_mask == RoadMask(rd, h[ref])
         IN  [heap |-> h \o <<carved_elevation,
                               CarveWhere(road_mask, h[ref], depth)>>,
              ret  |-> Len(h) + 2]

----------------------------------------------------------------------------
(* A call of rasterize_roads on its own, and a caller that then writes to *)
(* one of the two arrays it holds                                         *)

CarveVals == {0, 10, NaN}
CarveDepths == {2, 30}

InitCarve ==
    /\ pc = "call"
    /\ \E dp \in CarveDepths : config = [DefaultConfig EXCEPT !.road_depth_m = dp]
    /\ \E g \in PatternGrids(1 .. MaxCarveDim, CarveVals) :
          /\ heap = <<g>> /\ given = g
          /\ roads \in RoadSets(g.rows, g.cols)
    /\ arg = 1 /\ elevation_data = 0
    /\ dem_file = "none" /\ ret = 0
    /\ built = NoBuilt /\ mesh = NoMesh /\ error = "none"
    /\ exported = "none" /\ calls = 0 /\ trace = << >>
    /\ requests = << >>

RasterizeRoads ==
    /\ pc = "call"
    /\ LET r == rasterize_roads(heap, arg, roads, config.road_depth_m)
       IN  heap' = r.heap /\ ret' = r.ret
    /\ pc' = "returned"
    /\ calls' = calls + 1
    /\ UNCHANGED <<requests, config, elevation_data, dem_file, arg, roads, built, mesh,
                   error, exported, given, trace>>

\* the caller stores v into sample k of the array it got back
WriteReturned ==
    /\ pc = "returned"
    /\ \E k \in Cells(heap[ret]), v \in {77} :
          heap' = [heap EXCEPT ![ret].d[k] = v]
    /\ pc' = "written"
    /\ UNCHANGED <<requests, config, elevation_data, dem_file, arg, ret, roads, built,
                   mesh, error, exported, given, calls, trace>>

NextCarve == RasterizeRoads \/ WriteReturned

SpecCarve == InitCarve /\ [][NextCarve]_vars

----------------------------------------------------------------------------
(* Claims about rasterize_roads, checked under SpecCarve *)

\* C5: the carver returns a grid of the shape of its input in which every
\* occupied cell is the input value minus the carve depth and every other
\* cell is the input value; nothing floors the result, which may lie below
\* the lowest input sample.
C5_CarveExact ==
    pc = "returned" =>
        /\ SameShape(heap[ret], given)
        /\ Len(heap[ret].d) = Size(given)
        /\ \A k \in Cells(given) :
              heap[ret].d[k] =
                  IF k \in RoadMask(roads, given)
                  THEN FSub(given.d[k], config.road_depth_m)
                  ELSE given.d[k]

C5_Witness ==
    /\ pc = "returned"
    /\ \E k \in RoadMask(roads, given) :
          /\ IsFinite(given.d[k])
          /\ heap[ret].d[k] = given.d[k] - config.road_depth_m
          /\ heap[ret].d[k] < nanmin(given)
    /\ \E k \in Cells(given) \ RoadMask(roads, given) : IsFinite(given.d[k])

\* C6: after rasterize_roads returns, the input grid holds the values it
\* held before and the returned grid is another array than the input (a
\* write to it does not show in the input), whatever the road set.
C6_NoAlias ==
    pc \in {"returned", "written"} => (ret # arg /\ heap[arg] = given)

----------------------------------------------------------------------------
(* process_elevation_data and fill_voids: the elevation conditioner *)

VoidCells(g) == {k \in Cells(g) : IsNaN(g.d[k])}
ValidCells(g) == Cells(g) \ VoidCells(g)
HasVoid(g) == VoidCells(g) # {}

\* squared Euclidean distance between cells a and b, in pixels
Dist2(g, a, b) ==
    (RowOf(g, a) - RowOf(g, b)) * (RowOf(g, a) - RowOf(g, b))
        + (ColOf(g, a) - ColOf(g, b)) * (ColOf(g, a) - ColOf(g, b))

\* (mutant) any valid cell will do as the source of a void cell
NearestValidAny(g, k) ==
    IF ~IsNaN(g.d[k]) THEN {k}
    ELSE IF ValidCells(g) = {} THEN Cells(g) ELSE ValidCells(g)

\* ndimage.distance_transform_edt(mask, return_indices=True) at cell k: the
\* index of a background (non-void) cell closest to k, any of them on a tie
\* (the library's scan order decides, the code does not); a non-void cell
\* is its own closest one.  Without any background cell the index is
\* whatever the library leaves there: some cell of the grid
NearestValid(g, k) ==
    IF ~IsNaN(g.d[k]) THEN {k}
    ELSE IF \A c \in Cells(g) : IsNaN(g.d[c]) THEN Cells(g)
    ELSE {v \in Cells(g) :
             /\ ~IsNaN(g.d[v])
             /\ \A w \in Cells(g) :
                   IsNaN(g.d[w]) \/ Dist2(g, k, v) <= Dist2(g, k, w)}

\* elevation_data[tuple(indices)]: the sample sequences fill_voids can
\* produce for the first k cells
RECURSIVE FillPrefixes(_, _)
FillPrefixes(g, k) ==
    IF k = 0 THEN {<< >>}
    ELSE {Append(p, g.d[v]) : p \in FillPrefixes(g, k - 1), v \in NearestValid(g, k)}

\* fill_voids(elevation_data): the grids it can return (a new array)
fill_voids(g) == {[g EXCEPT !.d = dd] : dd \in FillPrefixes(g, Size(g))}

\* index i - 1, i, i + 1 of an axis of n samples under scipy's default
\* boundary mode 'reflect' (the edge sample is repeated)
Reflect(i, n) == IF i < 0 THEN 0 ELSE IF i > n - 1 THEN n - 1 ELSE i

\* One ndimage.gaussian_filter(elevation_data, sigma=1.0) pass, which
\* replaces every sample by a weighted average of its neighbourhood.  The
\* kernel is kept as the 3 x 3 binomial kernel (1 2 1)x(1 2 1)/16 at integer
\* resolution; a NaN in the window gives NaN, an infinity gives infinity
SmoothCell(g, k) ==
    LET at(di, dj) == g.d[Reflect(RowOf(g, k) + di, g.rows) * g.cols
                            + Reflect(ColOf(g, k) + dj, g.cols) + 1]
        vals == {at(di, dj) : di \in {0 - 1, 0, 1}, dj \in {0 - 1, 0, 1}}
        sum == at(0 - 1, 0 - 1) + 2 * at(0 - 1, 0) + at(0 - 1, 1)
                 + 2 * at(0, 0 - 1) + 4 * at(0, 0) + 2 * at(0, 1)
                 + at(1, 0 - 1) + 2 * at(1, 0) + at(1, 1)
    IN  IF NaN \in vals \/ (Inf \in vals /\ NegInf \in vals) THEN NaN
        ELSE IF Inf \in vals THEN Inf
        ELSE IF NegInf \in vals THEN NegInf
        ELSE (sum + 8) \div 16

gaussian_filter(g) == [g EXCEPT !.d = [k \in Cells(g) |-> SmoothCell(g, k)]]

\* (mutant) the loop body runs once before the count is tested
PassesNeededAtLeastOne(cfg) ==
    IF cfg.smooth_iterations > 0 THEN cfg.smooth_iterations ELSE 1

\* if smooth_iterations > 0: for _ in range(smooth_iterations)
PassesNeeded(cfg) ==
    IF cfg.smooth_iterations > 0 THEN cfg.smooth_iterations ELSE 0

\* what self.fill_voids(elevation_data) can return where
\* process_elevation_data calls it: only when np.any(mask)
FillIfVoid(g) == IF HasVoid(g) THEN fill_voids(g) ELSE {g}

\* The whole of process_elevation_data on the array h[ref], with filled the
\* grid fill_voids returned (used only when the array has a void): the heap
\* it leaves and the reference it returns and stores in
\* self.elevation_data.  fill_voids and every smoothing pass allocate a new
\* array; with neither, the argument itself is returned
RECURSIVE SmoothLoop(_, _, _)
SmoothLoop(h, ref, n) ==
    IF n = 0 THEN [heap |-> h, ret |-> ref]
    ELSE SmoothLoop(Append(h, gaussian_filter(h[ref])), Len(h) + 1, n - 1)

process_elevation_data(h, ref, filled, cfg) ==
    LET mask == VoidCells(h[ref])
        h1 == IF mask # {} THEN Append(h, filled) ELSE h
        r1 == IF mask # {} THEN Len(h) + 1 ELSE ref
    IN  SmoothLoop(h1, r1, PassesNeeded(cfg))

----------------------------------------------------------------------------
(* Calls of fill_voids and of process_elevation_data on their own; the    *)
(* conditioner may be applied again to the grid it returned               *)

\* the grid of r x c samples 10, 20, 30, ... with the cells of V void
VGrid(r, c, V) ==
    [rows |-> r, cols |-> c,
     d |-> [k \in 1 .. r * c |-> IF k \in V THEN NaN ELSE 10 * k]]

CondGrids ==
    UNION {UNION {{VGrid(r, c, V) : V \in {W \in SUBSET (1 .. r * c) :
                                              Cardinality(W) <= MaxVoid}}
                  : c \in {n \in 1 .. MaxCondDim : r * n <= MaxCondCells}}
           : r \in 1 .. MaxCondDim}

InitCond ==
    /\ pc = "call"
    /\ \E n \in 0 .. MaxSmooth :
          config = [DefaultConfig EXCEPT !.smooth_iterations = n]
    /\ \E g \in CondGrids : heap = <<g>> /\ given = g
    /\ arg = 1 /\ elevation_data = 0
    /\ dem_file = "none" /\ ret = 0 /\ roads = NoRoads
    /\ built = NoBuilt /\ mesh = NoMesh /\ error = "none"
    /\ exported = "none" /\ calls = 0 /\ trace = << >>
    /\ requests = << >>

FillVoids ==
    /\ pc = "call"
    /\ \E f \in fill_voids(heap[arg]) :
          heap' = Append(heap, f) /\ ret' = Len(heap) + 1
    /\ pc' = "filled"
    /\ UNCHANGED <<requests, config, elevation_data, dem_file, arg, roads, built, mesh,
                   error, exported, given, calls, trace>>

\* the first call is given the input array, a later one the array the
\* previous call returned
ProcessElevationData ==
    /\ pc \in {"call", "processed"}
    /\ calls < MaxCalls
    /\ LET ref == IF calls = 0 THEN arg ELSE ret
       IN  \E f \in FillIfVoid(heap[ref]) :
           \E r \in {process_elevation_data(heap, ref, f, config)} :
              /\ heap' = r.heap
              /\ ret' = r.ret
              /\ elevation_data' = r.ret
    /\ pc' = "processed"
    /\ calls' = calls + 1
    /\ UNCHANGED <<requests, config, dem_file, arg, roads, built, mesh, error, exported,
                   given, trace>>

NextCond == FillVoids \/ ProcessElevationData

SpecCond == InitCond /\ [][NextCond]_vars

----------------------------------------------------------------------------
(* Claims about the conditioner, checked under SpecCond *)

\* the result of fill_voids: the shape of the input, every void cell holds
\* the value of a non-void cell at least Euclidean distance, every other
\* cell its own value, and no void is left
FilledFromNearest ==
    /\ SameShape(heap[ret], given)
    /\ Len(heap[ret].d) = Size(given)
    /\ \A k \in Cells(given) : ~IsNaN(heap[ret].d[k])
    /\ \A k \in ValidCells(given) : heap[ret].d[k] = given.d[k]
    /\ \A k \in VoidCells(given) :
          \E v \in ValidCells(given) :
              /\ heap[ret].d[k] = given.d[v]
              /\ \A w \in ValidCells(given) :
                    Dist2(given, k, v) <= Dist2(given, k, w)

\* C7 as stated: for a grid that contains void samples, fill_voids returns
\* a grid of the same shape without void samples, where every void cell
\* took the value of a nearest non-void cell and the others kept theirs.
C7_Original == (pc = "filled" /\ HasVoid(given)) => FilledFromNearest

\* C7 as amended: the same, for a grid that contains void samples and at
\* least one non-void sample.
C7_Amended ==
    (pc = "filled" /\ HasVoid(given) /\ ValidCells(given) # {})
        => FilledFromNearest

C7_Witness ==
    /\ pc = "filled"
    /\ Cardinality(VoidCells(given)) >= 2
    /\ given.rows = 3 /\ given.cols = 3
    /\ IsNaN(given.d[1]) /\ heap[ret].d[1] = given.d[2]

\* C8: with smooth_iterations = 0 and an input without voids,
\* process_elevation_data returns a grid identical to its input, the first
\* time and when applied again to its result.
C8_ZeroPassesIdentity ==
    (pc = "processed" /\ config.smooth_iterations = 0 /\ ~HasVoid(given)) =>
        /\ heap[ret] = given
        /\ heap[elevation_data] = given
        /\ heap[arg] = given

C8_Witness ==
    /\ pc = "processed" /\ calls = 2
    /\ config.smooth_iterations = 0 /\ ~HasVoid(given)
    /\ Size(given) >= 4
    /\ heap[ret] = given
    /\ gaussian_filter(given) # given

----------------------------------------------------------------------------
(* Claims about create_mesh, checked under SpecMesh *)

Corners(f) == {f[1], f[2], f[3]}
\* number of triangles that contain the undirected edge {a, b}, corners
\* being the sequence of the corner sets of the triangles
EdgeCount(corners, a, b) ==
    Cardinality({k \in 1 .. Len(corners) : a \in corners[k] /\ b \in corners[k]})

MeshDone == pc \in {"returned", "raised"}
HasQuad(g) == g.rows >= 2 /\ g.cols >= 2

\* C1: for every grid with R >= 2 rows and C >= 2 columns create_mesh
\* assembles a triangle list over the 2*R*C vertices in which every
\* undirected edge of any triangle occurs in exactly two triangles.
C1_Closed ==
    (MeshDone /\ HasQuad(given)) =>
        /\ Len(built.faces) > 0
        /\ Len(built.vertices) = 2 * Size(given)
        /\ \A corners \in {[k \in 1 .. Len(built.faces) |->
                                Corners(built.faces[k])]} :
           \A k \in 1 .. Len(built.faces) :
              /\ corners[k] \subseteq 0 .. 2 * Size(given) - 1
              /\ \A c \in 1 .. 3 :
                    LET a == built.faces[k][c]
                        b == built.faces[k][(c % 3) + 1]
                    IN  a # b /\ EdgeCount(corners, a, b) = 2

C1_Witness ==
    pc = "returned" /\ given.rows = 3 /\ given.cols = 4 /\ Len(built.faces) = 44

IsScenario == given = ScenarioGrid /\ config = ScenarioConfig

\* C2 as stated: on the 4x4 scenario create_mesh builds 32 top, 32 bottom
\* and 24 side-wall triangles, 88 in total.
C2_Original ==
    (MeshDone /\ IsScenario) =>
        /\ Len(built.faces_top) = 32
        /\ Len(built.faces_bottom) = 32
        /\ Len(built.faces_sides) = 24
        /\ Len(built.faces) = 88

\* C2 as amended: on the 4x4 scenario create_mesh builds 18 top, 18 bottom
\* and 24 side-wall triangles, 60 in total (two triangles for each of the
\* 3 x 3 cells).
C2_Amended ==
    (MeshDone /\ IsScenario) =>
        /\ pc = "returned"
        /\ Len(built.faces_top) = 18
        /\ Len(built.faces_bottom) = 18
        /\ Len(built.faces_sides) = 24
        /\ Len(built.faces) = 60

C2_Witness == pc = "returned" /\ IsScenario /\ Len(built.faces) > 0

\* every sample of g is the same finite value
Flat(g) ==
    /\ Size(g) > 0
    /\ \A k \in Cells(g) : IsFinite(g.d[k]) /\ g.d[k] = g.d[1]

\* C3: on a grid whose samples are all equal create_mesh does not divide by
\* zero: every top vertex has z = base_thickness_mm, which is then the
\* height of the model.
C3_FlatAtBase ==
    (pc = "returned" /\ Flat(given)) =>
        \A k \in 1 .. Size(given) :
            QEq(built.vertices[k].z, <<config.base_thickness_mm, 1>>)

\* C4: create_mesh fails with an error and returns no mesh on every grid
\* with fewer than 2 rows or fewer than 2 columns.
C4_SmallRejected ==
    (MeshDone /\ ~HasQuad(given)) =>
        pc = "raised" /\ error # "none" /\ mesh = NoMesh

C4_Witness ==
    pc = "raised" /\ given.rows = 1 /\ given.cols = 3 /\ error = "IndexError"

----------------------------------------------------------------------------
(* run(): the pipeline.  What the outside world answers (the geocoder, the *)
(* DEM servers, the raster file, the road sources) is chosen freely.       *)

\* One request to an outside service and what came back: "ok", or the
\* exception the call raised
Request(to, outcome) == [to |-> to, outcome |-> outcome]

\* str.lower() on the data_source values of the model
Lower(str) ==
    CASE str = "SRTM" -> "srtm"
      [] OTHER -> str

\* a boolean request outcome as the log keeps it
Outcome(success, exception) == IF success THEN "ok" ELSE exception

\* the exception a request leaves its caller with, "none" on success
Failure(success, exception) == IF success THEN "none" ELSE exception

\* What a downloader leaves: the exception it raised or "none", the value
\* of self.dem_file after it (set only on success), the method run()
\* called and the requests made
DownloadResult(method, exception, reqs) ==
    [error    |-> exception,
     dem_file |-> IF exception = "none" THEN "dem_data/terrain.tif"
                  ELSE "none",
     called   |-> method,
     requests |-> reqs]

\* download_dem_data: SRTM through the eio command line tool; success is
\* the outcome of the subprocess
download_dem_data(success) ==
    DownloadResult("download_dem_data",
                   Failure(success, "CalledProcessError"),
                   <<Request("eio clip",
                             Outcome(success, "CalledProcessError"))>>)

\* download_dem_data_py3dep: every exception is re-raised
download_dem_data_py3dep(success) ==
    DownloadResult("download_dem_data_py3dep",
                   Failure(success, "Exception"),
                   <<Request("py3dep.get_map", Outcome(success, "Exception"))>>)

\* download_dem_data_opentopography: ValueError without an API key, before
\* any request; a RequestException is re-raised
download_dem_data_opentopography(cfg, success) ==
    IF ~cfg.opentopography_api_key
    THEN DownloadResult("download_dem_data_opentopography", "ValueError",
                        << >>)
    ELSE DownloadResult("download_dem_data_opentopography",
                        Failure(success, "RequestException"),
                        <<Request("opentopography/globaldem",
                                  Outcome(success, "RequestException"))>>)

\* (mutant) the lidar downloader re-raises instead of falling back
download_dem_data_opentopography_lidar_reraise(cfg, first, second) ==
    IF ~cfg.opentopography_api_key
    THEN DownloadResult("download_dem_data_opentopography_lidar",
                        "ValueError", << >>)
    ELSE DownloadResult("download_dem_data_opentopography_lidar",
                        Failure(first, "RequestException"),
                        <<Request("opentopography/usgsdem",
                                  Outcome(first, "RequestException"))>>)

\* download_dem_data_opentopography_lidar: ValueError without an API key;
\* when its own request (outcome first) fails with a RequestException it
\* returns what download_dem_data_opentopography does (outcome second)
download_dem_data_opentopography_lidar(cfg, first, second) ==
    IF ~cfg.opentopography_api_key
    THEN DownloadResult("download_dem_data_opentopography_lidar",
                        "ValueError", << >>)
    ELSE LET usgsdem == Request("opentopography/usgsdem",
                                Outcome(first, "RequestException"))
             standard == download_dem_data_opentopography(cfg, second)
         IN  IF first
             THEN DownloadResult("download_dem_data_opentopography_lidar",
                                 "none", <<usgsdem>>)
             ELSE DownloadResult("download_dem_data_opentopography_lidar",
                                 standard.error,
                                 <<usgsdem>> \o standard.requests)

\* (mutant) an unknown data_source is served by the SRTM downloader
download_dem_default_srtm(cfg, first, second) ==
    LET data_source == Lower(cfg.data_source)
    IN  CASE data_source = "py3dep" -> download_dem_data_py3dep(first)
          [] data_source = "opentopography" ->
                download_dem_data_opentopography(cfg, first)
          [] data_source = "opentopography_lidar" ->
                download_dem_data_opentopography_lidar(cfg, first, second)
          [] OTHER -> download_dem_data(first)

\* The dispatch of run() on data_source.lower(), with the outcomes first
\* and second of the requests the downloader makes (TRUE is success); an
\* unknown source raises ValueError and no downloader is called
download_dem(cfg, first, second) ==
    LET data_source == Lower(cfg.data_source)
    IN  CASE data_source = "py3dep" -> download_dem_data_py3dep(first)
          [] data_source = "opentopography" ->
                download_dem_data_opentopography(cfg, first)
          [] data_source = "opentopography_lidar" ->
                download_dem_data_opentopography_lidar(cfg, first, second)
          [] data_source = "srtm" -> download_dem_data(first)
          [] OTHER -> DownloadResult("none", "ValueError", << >>)

\* overpass_urls, and what one requests.post(url, ..., timeout=30) followed
\* by raise_for_status() can do
overpass_urls ==
    <<"https://overpass.kumi.systems/api/interpreter",
      "http://overpass-api.de/api/interpreter">>
PostOutcomes == {"ok", "Timeout", "HTTPError", "ConnectionError"}

\* The loop over overpass_urls from server i on, answers[i] being what
\* server i does when asked: the requests made and the exception that
\* leaves the loop, or "none".  Only Timeout and HTTPError are caught in
\* the loop, and re-raised on the last url
RECURSIVE OverpassLoop(_, _, _)
OverpassLoop(answers, i, log) ==
    IF i > Len(overpass_urls)
    THEN [requests |-> log, error |-> "Exception"]
    ELSE LET log1 == Append(log, Request(overpass_urls[i], answers[i]))
         IN  IF answers[i] = "ok"
             THEN [requests |-> log1, error |-> "none"]
             ELSE IF answers[i] \in {"Timeout", "HTTPError"}
             THEN (IF i = Len(overpass_urls)
                   THEN [requests |-> log1, error |-> answers[i]]
                   ELSE OverpassLoop(answers, i + 1, log1))
             ELSE [requests |-> log1, error |-> answers[i]]

\* (mutant) a failing road download is not caught
download_roads_uncaught(cfg, file, answers, found) ==
    IF cfg.roads_geojson_file /\ ~file.none
    THEN [error |-> "none", roads |-> file, requests |-> << >>]
    ELSE LET r == OverpassLoop(answers, 1, << >>)
         IN  [error    |-> r.error,
              roads    |-> IF r.error = "none" THEN found ELSE NoRoads,
              requests |-> r.requests]

\* download_roads: file is what gpd.read_file gives for the configured
\* GeoJSON file (NoRoads when the file is missing or unreadable), answers
\* what the Overpass servers do, found the roads in the response (NoRoads
\* when no way has a geometry; never an empty GeoDataFrame).  Every
\* exception is caught and turned into None
download_roads(cfg, file, answers, found) ==
    IF cfg.roads_geojson_file /\ ~file.none
    THEN [error |-> "none", roads |-> file, requests |-> << >>]
    ELSE LET r == OverpassLoop(answers, 1, << >>)
         IN  [error    |-> "none",
              roads    |-> IF r.error = "none" THEN found ELSE NoRoads,
              requests |-> r.requests]

RunVals == {0, 10, NaN, Inf}
RunGrids == PatternGrids(1 .. MaxRunDim, RunVals)

\* road sets of at most one segment
SmallRoadSets(r, c) ==
    {NoRoads, Gdf({})} \cup {Gdf({f}) : f \in Footprints(r, c)}

Sources ==
    {<<"srtm", FALSE>>, <<"py3dep", FALSE>>, <<"opentopography", TRUE>>,
     <<"opentopography", FALSE>>, <<"opentopography_lidar", TRUE>>,
     <<"opentopography_lidar", FALSE>>, <<"usgs", FALSE>>,
     <<"SRTM", FALSE>>}

\* the configurations run() is started with: every data source with the
\* other settings at their defaults, and every setting of the roads and of
\* the smoothing with the default data source
RunConfigs ==
    {[DefaultConfig EXCEPT !.data_source = s[1],
                           !.opentopography_api_key = s[2]] : s \in Sources}
    \cup
    {[DefaultConfig EXCEPT !.include_roads = r[1],
                           !.roads_geojson_file = r[2],
                           !.smooth_iterations = n] :
        r \in {<<FALSE, FALSE>>, <<TRUE, FALSE>>, <<TRUE, TRUE>>},
        n \in {0, 1}}

Init ==
    /\ pc = "geocode_address"
    /\ config \in RunConfigs
    /\ heap = << >> /\ given = [rows |-> 0, cols |-> 0, d |-> << >>]
    /\ arg = 0 /\ elevation_data = 0
    /\ dem_file = "none" /\ ret = 0 /\ roads = NoRoads
    /\ built = NoBuilt /\ mesh = NoMesh /\ error = "none"
    /\ exported = "none" /\ calls = 0 /\ trace = << >>
    /\ requests = << >>

\* an exception leaves run()
Raise(e) == pc' = "failed" /\ error' = e

\* lat, lon = self.geocode_address(...); self.bounds = calculate_bounds(...)
RunGeocode ==
    /\ pc = "geocode_address"
    /\ trace' = Append(trace, "geocode_address")
    /\ \E found \in BOOLEAN :
          IF found THEN pc' = "download_dem_data" /\ error' = error
                   ELSE Raise("ValueError")
    /\ UNCHANGED <<requests, config, heap, elevation_data, dem_file, arg, ret, roads,
                   built, mesh, exported, given, calls>>

\* the dispatch on data_source and the downloader it calls
RunDownloadDem ==
    /\ pc = "download_dem_data"
    /\ \E first \in BOOLEAN, second \in BOOLEAN :
          LET r == download_dem(config, first, second)
          IN  /\ dem_file' = r.dem_file
              /\ requests' = requests \o r.requests
              /\ trace' = IF r.called = "none" THEN trace
                          ELSE Append(trace, r.called)
              /\ IF r.error = "none"
                 THEN pc' = "load_elevation_data" /\ error' = error
                 ELSE Raise(r.error)
    /\ UNCHANGED <<config, heap, elevation_data, arg, ret, roads, built, mesh,
                   exported, given, calls>>

\* self.load_elevation_data(): the raster read becomes self.elevation_data;
\* then the test of include_roads
RunLoadElevationData ==
    /\ pc = "load_elevation_data"
    /\ \E g \in RunGrids :
          heap' = Append(heap, g) /\ elevation_data' = Len(heap) + 1 /\ given' = g
    /\ pc' = IF config.include_roads THEN "download_roads"
             ELSE "process_elevation_data"
    /\ trace' = Append(trace, "load_elevation_data")
    /\ UNCHANGED <<requests, config, dem_file, arg, ret, roads, built, mesh, error,
                   exported, calls>>

\* roads_gdf = self.download_roads(self.bounds); then the test for None
RunDownloadRoads ==
    /\ pc = "download_roads"
    /\ \E file \in SmallRoadSets(given.rows, given.cols),
          answers \in [1 .. Len(overpass_urls) -> PostOutcomes],
          found \in SmallRoadSets(given.rows, given.cols) \ {Gdf({})} :
          LET r == download_roads(config, file, answers, found)
          IN  /\ roads' = r.roads
              /\ requests' = requests \o r.requests
              /\ IF r.error # "none" THEN Raise(r.error)
                 ELSE /\ error' = error
                      /\ pc' = IF r.roads.none THEN "process_elevation_data"
                               ELSE "rasterize_roads"
    /\ trace' = Append(trace, "download_roads")
    /\ UNCHANGED <<config, heap, elevation_data, dem_file, arg, ret, built,
                   mesh, exported, given, calls>>

\* self.elevation_data = self.rasterize_roads(roads_gdf, self.elevation_data, ...)
RunRasterizeRoads ==
    /\ pc = "rasterize_roads"
    /\ LET r == rasterize_roads(heap, elevation_data, roads, config.road_depth_m)
       IN  heap' = r.heap /\ elevation_data' = r.ret
    /\ pc' = "process_elevation_data"
    /\ trace' = Append(trace, "rasterize_roads")
    /\ UNCHANGED <<requests, config, dem_file, arg, ret, roads, built, mesh, error,
                   exported, given, calls>>

\* (mutant) the conditioner returns its result without storing it in
\* self.elevation_data
RunProcessNotStored ==
    /\ pc = "process_elevation_data"
    /\ \E f \in FillIfVoid(heap[elevation_data]) :
       \E r \in {process_elevation_data(heap, elevation_data, f, config)} :
          heap' = r.heap /\ ret' = r.ret
    /\ pc' = "create_mesh"
    /\ trace' = Append(trace, "process_elevation_data")
    /\ UNCHANGED <<requests, config, dem_file, arg, elevation_data, roads, built, mesh,
                   error, exported, given, calls>>

\* self.process_elevation_data(): it stores its result in
\* self.elevation_data and returns it (run() drops the returned reference)
RunProcessElevationData ==
    /\ pc = "process_elevation_data"
    /\ \E f \in FillIfVoid(heap[elevation_data]) :
       \E r \in {process_elevation_data(heap, elevation_data, f, config)} :
          heap' = r.heap /\ elevation_data' = r.ret /\ ret' = r.ret
    /\ pc' = "create_mesh"
    /\ trace' = Append(trace, "process_elevation_data")
    /\ UNCHANGED <<requests, config, dem_file, arg, roads, built, mesh, error,
                   exported, given, calls>>

\* mesh = self.create_mesh()
RunCreateMesh ==
    /\ pc = "create_mesh"
    /\ \E r \in {create_mesh(heap[elevation_data], config)} :
           /\ built' = r.built
           /\ mesh' = r.mesh
           /\ IF r.error = "none" THEN pc' = "export_stl" /\ error' = error
              ELSE Raise(r.error)
    /\ trace' = Append(trace, "create_mesh")
    /\ UNCHANGED <<requests, config, heap, elevation_data, dem_file, arg, ret, roads,
                   exported, given, calls>>

\* output_file = self.export_stl(mesh)
RunExportStl ==
    /\ pc = "export_stl"
    /\ exported' = "terrain_model.stl"
    /\ pc' = "done"
    /\ trace' = Append(trace, "export_stl")
    /\ UNCHANGED <<requests, config, heap, elevation_data, dem_file, arg, ret, roads,
                   built, mesh, error, given, calls>>

Next ==
    \/ RunGeocode
    \/ RunDownloadDem
    \/ RunLoadElevationData
    \/ RunDownloadRoads
    \/ RunRasterizeRoads
    \/ RunProcessElevationData
    \/ RunCreateMesh
    \/ RunExportStl

Spec == Init /\ [][Next]_vars

----------------------------------------------------------------------------
(* Claims about run(), checked under Spec *)

Called(m) == \E i \in 1 .. Len(trace) : trace[i] = m
LastCalled == IF trace = << >> THEN "none" ELSE trace[Len(trace)]
RoadsAbsent == roads.none \/ roads.segs = {}

\* C9: when include_roads is set and the road download fails, finds no
\* roads or gives an empty road set, run() is not aborted by it: nothing is
\* carved (no array is allocated), the conditioner is handed the loaded
\* array with the loaded values, and run() goes on to conditioning, meshing
\* and export: it can only still fail in create_mesh, on a grid without a
\* quad.
C9_AbsentRoadsSkipCarving ==
    (config.include_roads /\ Called("download_roads") /\ RoadsAbsent) =>
        /\ pc \in {"rasterize_roads", "process_elevation_data", "create_mesh",
                   "export_stl", "done", "failed"}
        /\ pc = "failed" =>
              (LastCalled = "create_mesh" /\ ~HasQuad(given))
        /\ roads.none => (pc # "rasterize_roads" /\ ~Called("rasterize_roads"))
        /\ pc = "process_elevation_data" =>
              (heap = <<given>> /\ elevation_data = 1)
        /\ pc = "done" =>
              (LastCalled = "export_stl" /\ exported # "none" /\ ~mesh.none)

C9_Witness ==
    /\ pc = "done" /\ exported # "none"
    /\ config.include_roads /\ Called("download_roads")
    /\ roads = Gdf({}) /\ Called("rasterize_roads")
    /\ heap[1] = given

C9_WitnessNone ==
    /\ pc = "done" /\ exported # "none"
    /\ config.include_roads /\ Called("download_roads")
    /\ roads = NoRoads /\ ~Called("rasterize_roads")

\* C10: when the grid that reaches create_mesh has a non-finite sample,
\* create_mesh fails, run() ends there and no mesh is returned or exported.
C10_NonFiniteRejected ==
    (Called("create_mesh")
        /\ \E k \in Cells(heap[elevation_data]) :
              ~IsFinite(heap[elevation_data].d[k]))
    => (pc = "failed" /\ mesh = NoMesh /\ exported = "none")

----------------------------------------------------------------------------
(* Claims about the geometry and the layout of the buffers create_mesh    *)
(* assembles, checked under SpecMesh                                       *)

\* p - q for finite rationals, with a positive denominator
QSub(p, q) == <<p[1] * q[2] - q[1] * p[2], p[2] * q[2]>>

\* the sign of r1 * r2 - r3 * r4 for finite rationals with positive
\* denominators; the products are only formed when the signs do not decide
CrossSign(r1, r2, r3, r4) ==
    LET s1 == Sign(r1[1]) * Sign(r2[1])
        s2 == Sign(r3[1]) * Sign(r4[1])
    IN  IF s1 # s2 THEN Sign(s1 - s2)
        ELSE IF s1 = 0 THEN 0
        ELSE Sign(r1[1] * r2[1] * r3[2] * r4[2]
                    - r3[1] * r4[1] * r1[2] * r2[2])

\* the sign of one component (axis "x", "y" or "z") of the normal
\* (b - a) x (c - a) of triangle f = <<a, b, c>> over the vertex buffer vs
\* (right-hand rule)
NormalSign(vs, f, axis) ==
    LET a == vs[f[1] + 1]
        b == vs[f[2] + 1]
        c == vs[f[3] + 1]
        ux == QSub(b.x, a.x)
        uy == QSub(b.y, a.y)
        uz == QSub(b.z, a.z)
        vx == QSub(c.x, a.x)
        vy == QSub(c.y, a.y)
        vz == QSub(c.z, a.z)
    IN  CASE axis = "x" -> CrossSign(uy, vz, uz, vy)
          [] axis = "y" -> CrossSign(uz, vx, ux, vz)
          [] axis = "z" -> CrossSign(ux, vy, uy, vx)

\* on which side of the middle of the model vertex v of vs lies, per axis
SideOfCentre(vs, v, cfg) ==
    [x |-> Sign(2 * vs[v + 1].x[1] - cfg.model_width_mm * vs[v + 1].x[2]),
     y |-> Sign(2 * vs[v + 1].y[1] - cfg.model_height_mm * vs[v + 1].y[2])]

\* wall triangle f is vertical and its normal points away from the middle
\* of the model
FacesAway(vs, f, cfg) ==
    LET n == [x |-> NormalSign(vs, f, "x"), y |-> NormalSign(vs, f, "y"),
              z |-> NormalSign(vs, f, "z")]
        s == SideOfCentre(vs, f[1], cfg)
    IN  /\ n.z = 0
        /\ n.x * s.x >= 0
        /\ n.y * s.y >= 0
        /\ n.x * s.x + n.y * s.y > 0

\* wall triangle f is vertical and its normal points to the middle
FacesInward(vs, f, cfg) ==
    LET n == [x |-> NormalSign(vs, f, "x"), y |-> NormalSign(vs, f, "y"),
              z |-> NormalSign(vs, f, "z")]
        s == SideOfCentre(vs, f[1], cfg)
    IN  /\ n.z = 0
        /\ n.x * s.x <= 0
        /\ n.y * s.y <= 0
        /\ n.x * s.x + n.y * s.y < 0

AllFinite(vs) == \A k \in 1 .. Len(vs) : VertexFinite(vs[k])

\* every top vertex lies above the base plane z = 0
Thick(g, vs) == \A k \in 1 .. Size(g) : vs[k].z[1] > 0

\* C11: as create_mesh assembles them (before trimesh repairs anything),
\* every top triangle has a normal with positive z, every bottom triangle a
\* normal with negative z, and every wall triangle faces away from the
\* inside of the grid.
C11_FacesOutward ==
    (pc = "returned" /\ AllFinite(built.vertices)
        /\ Thick(given, built.vertices)) =>
        /\ \A k \in 1 .. Len(built.faces_top) :
              NormalSign(built.vertices, built.faces_top[k], "z") = 1
        /\ \A k \in 1 .. Len(built.faces_bottom) :
              NormalSign(built.vertices, built.faces_bottom[k], "z") = 0 - 1
        /\ \A k \in 1 .. Len(built.faces_sides) :
              FacesAway(built.vertices, built.faces_sides[k], config)

\* what the code builds instead: every face points into the solid
C11_FacesInward ==
    (pc = "returned" /\ AllFinite(built.vertices)
        /\ Thick(given, built.vertices)) =>
        /\ \A k \in 1 .. Len(built.faces_top) :
              NormalSign(built.vertices, built.faces_top[k], "z") = 0 - 1
        /\ \A k \in 1 .. Len(built.faces_bottom) :
              NormalSign(built.vertices, built.faces_bottom[k], "z") = 1
        /\ \A k \in 1 .. Len(built.faces_sides) :
              FacesInward(built.vertices, built.faces_sides[k], config)

\* every sample of g is finite and two of them differ
NonFlat(g) ==
    /\ \A k \in Cells(g) : IsFinite(g.d[k])
    /\ \E k \in Cells(g) : g.d[k] # g.d[1]

IsLowest(g, k) == \A j \in Cells(g) : g.d[k] <= g.d[j]
IsHighest(g, k) == \A j \in Cells(g) : g.d[k] >= g.d[j]

\* base_thickness_mm + 0.3 * min(model_width_mm, model_height_mm)
\*     * vertical_scale
FullHeight(cfg) ==
    <<100 * cfg.base_thickness_mm
        + 3 * Min2(cfg.model_width_mm, cfg.model_height_mm)
            * cfg.vertical_scale10,
      100>>

\* C12: on every grid of finite samples that are not all equal, the z of
\* every top vertex lies between base_thickness_mm and base_thickness_mm +
\* 0.3 * min(model_width_mm, model_height_mm) * vertical_scale, it is the
\* lower end exactly at the cells holding the minimum elevation and the
\* upper end exactly at the cells holding the maximum, whatever the
\* elevations are; every bottom vertex has z = 0.
C12_ReliefRange ==
    (pc = "returned" /\ NonFlat(given)) =>
        /\ Len(built.vertices) = 2 * Size(given)
        /\ \A k \in Cells(given) :
              LET z == built.vertices[k].z
                  lo == <<config.base_thickness_mm, 1>>
              IN  /\ QLeq(lo, z) /\ QLeq(z, FullHeight(config))
                  /\ QEq(z, lo) <=> IsLowest(given, k)
                  /\ QEq(z, FullHeight(config)) <=> IsHighest(given, k)
                  /\ built.vertices[Size(given) + k].z = <<0, 1>>

C12_Witness ==
    /\ pc = "returned" /\ given = ReliefGrid
    /\ config.model_width_mm # config.model_height_mm
    /\ QEq(built.vertices[3].z, <<45, 1>>)
    /\ QEq(built.vertices[1].z, <<0, 1>>)

\* the directed edges a -> b that the triangles of faces traverse
DirectedEdges(faces) ==
    {<<faces[k][c], faces[k][(c % 3) + 1]>> :
        k \in 1 .. Len(faces), c \in 1 .. 3}

\* the wall triangles that use both a and b
WallOn(faces_sides, a, b) ==
    {k \in 1 .. Len(faces_sides) : {a, b} \subseteq Corners(faces_sides[k])}

\* C14: for every grid with R, C >= 2 the assembled triangle list is
\* consistently wound: no directed edge lies in two triangles (the 3 * F
\* edge traversals of the F triangles are all different), and the reverse
\* of every traversed edge is traversed too, by another triangle; in
\* particular an edge between two top vertices or two bottom vertices that
\* a wall triangle traverses is traversed in the opposite direction, and
\* not in the same one, by a top or bottom triangle.
C14_ConsistentWinding ==
    (pc = "returned" /\ HasQuad(given)) =>
        /\ \A E \in {DirectedEdges(built.faces)} :
              /\ Cardinality(E) = 3 * Len(built.faces)
              /\ \A e \in E : e[1] # e[2] /\ <<e[2], e[1]>> \in E
        /\ \A k \in 1 .. Len(built.faces) :
              Cardinality(Corners(built.faces[k])) = 3
        /\ \A S \in {DirectedEdges(built.faces_sides)} :
           \A T \in {DirectedEdges(built.faces_top \o built.faces_bottom)} :
              \A e \in S :
                 ((e[1] < Size(given)) = (e[2] < Size(given))) =>
                    (<<e[2], e[1]>> \in T /\ e \notin T)

C14_Witness ==
    /\ pc = "returned" /\ given.rows = 4 /\ given.cols = 3
    /\ Len(built.faces_sides) = 20
    /\ WallOn(built.faces_sides, 9, 10) # {}
    /\ WallOn(built.faces_sides, 12 + 2, 12 + 5) # {}

\* the triangles of faces whose corners all belong to the set S
TrianglesWithin(faces, S) ==
    {k \in 1 .. Len(faces) : Corners(faces[k]) \subseteq S}

\* C15: for every grid with R, C >= 2 the top triangulation has exactly
\* 2 * (R - 1) * (C - 1) triangles; exactly two of them lie in each cell
\* (i, j), they use the cell's four corners i*C+j, i*C+j+1, (i+1)*C+j,
\* (i+1)*C+j+1 between them and have exactly the diagonal i*C+j+1,
\* (i+1)*C+j in common; no triangle repeats a vertex index.
C15_TopTriangulation ==
    (pc = "returned" /\ HasQuad(given)) =>
        /\ Len(built.faces_top) = 2 * (given.rows - 1) * (given.cols - 1)
        /\ \A k \in 1 .. Len(built.faces_top) :
              Cardinality(Corners(built.faces_top[k])) = 3
        /\ \A i \in 0 .. given.rows - 2 : \A j \in 0 .. given.cols - 2 :
              LET C == given.cols
                  four == {i * C + j, i * C + j + 1,
                           (i + 1) * C + j, (i + 1) * C + j + 1}
              IN  \A T \in {TrianglesWithin(built.faces_top, four)} :
                    /\ Cardinality(T) = 2
                    /\ UNION {Corners(built.faces_top[k]) : k \in T} = four
                    /\ \A k \in T : \A m \in T \ {k} :
                          Corners(built.faces_top[k])
                              \cap Corners(built.faces_top[m])
                            = {i * C + j + 1, (i + 1) * C + j}

C15_Witness ==
    /\ pc = "returned" /\ given.rows = 3 /\ given.cols = 4
    /\ Len(built.faces_top) = 12
    /\ built.faces_top[11] = <<6, 7, 10>>
    /\ built.faces_top[12] = <<7, 11, 10>>

\* the top indices of the grid points on the boundary of grid g
BoundaryPoints(g) ==
    {i * g.cols + j : i \in {0, g.rows - 1}, j \in 0 .. g.cols - 1}
        \cup {i * g.cols + j : i \in 0 .. g.rows - 1, j \in {0, g.cols - 1}}

\* the pairs <<k, k'>> of adjacent points along the four boundaries
BoundaryPairs(g) ==
    {<<i * g.cols + j, i * g.cols + j + 1>> :
        i \in {0, g.rows - 1}, j \in 0 .. g.cols - 2}
    \cup {<<i * g.cols + j, (i + 1) * g.cols + j>> :
        i \in 0 .. g.rows - 2, j \in {0, g.cols - 1}}

\* C16: for every grid with R, C >= 2 the side walls have exactly
\* 4 * (C - 1) + 4 * (R - 1) triangles; every wall triangle uses only
\* boundary grid points (as top index k or bottom index k + R*C); for
\* every pair k, k' of adjacent points of a boundary exactly two wall
\* triangles lie on k, k', k + R*C, k' + R*C and they use all four.
C16_SideWalls ==
    (pc = "returned" /\ HasQuad(given)) =>
        /\ Len(built.faces_sides)
              = 4 * (given.cols - 1) + 4 * (given.rows - 1)
        /\ Cardinality(BoundaryPairs(given))
              = 2 * (given.cols - 1) + 2 * (given.rows - 1)
        /\ \A B \in {BoundaryPoints(given)} :
           \A k \in 1 .. Len(built.faces_sides) :
              Corners(built.faces_sides[k])
                  \subseteq B \cup {b + Size(given) : b \in B}
        /\ \A p \in BoundaryPairs(given) :
              LET n == Size(given)
                  four == {p[1], p[2], p[1] + n, p[2] + n}
              IN  \A T \in {TrianglesWithin(built.faces_sides, four)} :
                    /\ Cardinality(T) = 2
                    /\ UNION {Corners(built.faces_sides[k]) : k \in T} = four

C16_Witness ==
    /\ pc = "returned" /\ given.rows = 3 /\ given.cols = 4
    /\ Len(built.faces_sides) = 20
    /\ built.faces_sides[20] = <<11, 19, 23>>

\* the planar position of grid point (i, j): x runs with the column from 0
\* to model_width_mm, y with the row from model_height_mm down to 0
PlanarX(g, cfg, j) ==
    IF g.cols = 1 THEN <<0, 1>> ELSE <<j * cfg.model_width_mm, g.cols - 1>>
PlanarY(g, cfg, i) ==
    IF g.rows = 1 THEN <<cfg.model_height_mm, 1>>
    ELSE <<(g.rows - 1 - i) * cfg.model_height_mm, g.rows - 1>>

\* C17: the combined vertex buffer has 2 * R * C entries in row-major
\* order: entry i*C+j is the top vertex of grid point (i, j) (its planar
\* position, and a height ordered like the samples), entry R*C + i*C+j is
\* its bottom vertex, with the same x and y and z = 0; the bottom face list
\* has as many triangles as the top face list, each the top triangle with
\* every index shifted by R*C and its last two indices swapped.
C17_BufferLayout ==
    /\ (MeshDone /\ Size(given) > 0) =>
          /\ Len(built.vertices) = 2 * Size(given)
          /\ \A i \in 0 .. given.rows - 1 : \A j \in 0 .. given.cols - 1 :
                LET n == Size(given)
                    top == built.vertices[i * given.cols + j + 1]
                    bottom == built.vertices[n + i * given.cols + j + 1]
                IN  /\ QEq(top.x, PlanarX(given, config, j))
                    /\ QEq(top.y, PlanarY(given, config, i))
                    /\ bottom.x = top.x /\ bottom.y = top.y
                    /\ bottom.z = <<0, 1>>
          /\ NonFlat(given) =>
                \A k \in Cells(given) : \A m \in Cells(given) :
                    (given.d[k] <= given.d[m])
                        <=> QLeq(built.vertices[k].z, built.vertices[m].z)
    /\ pc = "returned" =>
          /\ Len(built.faces_bottom) = Len(built.faces_top)
          /\ Len(built.faces_top) > 0
          /\ \A k \in 1 .. Len(built.faces_top) :
                LET n == Size(given)
                    t == built.faces_top[k]
                IN  built.faces_bottom[k] = <<t[1] + n, t[3] + n, t[2] + n>>
          /\ built.faces
                = built.faces_top \o built.faces_bottom \o built.faces_sides

C17_Witness ==
    /\ pc = "returned" /\ given = ReliefGrid /\ config = ScenarioConfig
    /\ QEq(built.vertices[6 + 3].x, <<100, 1>>)
    /\ QEq(built.vertices[6 + 4].y, <<0, 1>>)
    /\ built.faces_top[1] = <<0, 1, 3>>
    /\ built.faces_bottom[1] = <<6, 9, 7>>

----------------------------------------------------------------------------
(* Claims about the order of the stages of run(), checked under Spec *)

\* the position of a method in the pipeline
StageRank(m) ==
    CASE m = "geocode_address" -> 0
      [] m \in {"download_dem_data", "download_dem_data_py3dep",
                "download_dem_data_opentopography",
                "download_dem_data_opentopography_lidar"} -> 1
      [] m = "load_elevation_data" -> 2
      [] m = "download_roads" -> 3
      [] m = "rasterize_roads" -> 4
      [] m = "process_elevation_data" -> 5
      [] m = "create_mesh" -> 6
      [] m = "export_stl" -> 7

\* the loaded grid with the roads carved into it
CarvedGiven ==
    IF SkipsCarving(roads) THEN given
    ELSE [given EXCEPT !.d = [k \in Cells(given) |->
            IF k \in UNION roads.segs
            THEN FSub(given.d[k], config.road_depth_m) ELSE given.d[k]]]

\* C13: in every execution of run() the stages happen in the order load,
\* carving (optional), conditioning, mesh creation, export, each at most
\* once and none without the stage before it; the carver works on the grid
\* as loaded, before any void fill or smoothing; create_mesh is started on
\* the array the conditioner returned; export_stl is called only once
\* create_mesh has returned a mesh.
C13_StageOrder ==
    /\ \A i \in 1 .. Len(trace) : \A j \in 1 .. Len(trace) :
          i < j => StageRank(trace[i]) < StageRank(trace[j])
    /\ Called("rasterize_roads") => Called("load_elevation_data")
    /\ Called("process_elevation_data") => Called("load_elevation_data")
    /\ Called("create_mesh") => Called("process_elevation_data")
    /\ Called("export_stl") =>
          (Called("create_mesh") /\ ~mesh.none /\ error = "none")
    /\ LastCalled = "rasterize_roads" =>
          (heap[1] = given /\ heap[elevation_data] = CarvedGiven)
    /\ pc = "create_mesh" =>
          (LastCalled = "process_elevation_data" /\ ret # 0
              /\ elevation_data = ret)
    /\ (Called("create_mesh") /\ ~mesh.none) =>
          Len(built.vertices) = 2 * Size(heap[ret])

C13_Witness ==
    /\ pc = "done" /\ exported # "none"
    /\ trace = <<"geocode_address", "download_dem_data_py3dep",
                 "load_elevation_data", "download_roads", "rasterize_roads",
                 "process_elevation_data", "create_mesh", "export_stl">>
    /\ Len(heap) > 3 /\ heap[3] # given
    /\ heap[ret] # heap[3]

----------------------------------------------------------------------------
(* Claims about the downloads, checked under Spec *)

\* the requests made to the Overpass servers, in order
OverpassLog ==
    SelectSeq(requests,
        LAMBDA r : \E i \in 1 .. Len(overpass_urls) : r.to = overpass_urls[i])

\* C18: download_roads tries the Overpass servers in list order; a server
\* is contacted only if every earlier one failed, and none after a success;
\* whatever the failure of a server that is not the last, the next server
\* is tried; the method gives up only when all servers have failed, and
\* then it returns None and raises nothing.
C18_ServersInOrder ==
    \A L \in {OverpassLog} :
        /\ Len(L) <= Len(overpass_urls)
        /\ \A i \in 1 .. Len(L) :
              /\ L[i].to = overpass_urls[i]
              /\ \A j \in 1 .. i - 1 : L[j].outcome # "ok"
        /\ (Called("download_roads") /\ L # << >>) =>
              /\ \A i \in 1 .. Len(L) :
                    (L[i].outcome # "ok" /\ i < Len(overpass_urls))
                        => Len(L) > i
              /\ (\A i \in 1 .. Len(L) : L[i].outcome # "ok") =>
                    /\ Len(L) = Len(overpass_urls)
                    /\ roads.none
                    /\ LastCalled = "download_roads" => pc # "failed"

Recognized == {"srtm", "py3dep", "opentopography", "opentopography_lidar"}
Downloaders ==
    {"download_dem_data", "download_dem_data_py3dep",
     "download_dem_data_opentopography",
     "download_dem_data_opentopography_lidar"}

\* the downloader that serves a recognized data source
DownloaderOf(source) ==
    CASE source = "srtm" -> "download_dem_data"
      [] source = "py3dep" -> "download_dem_data_py3dep"
      [] source = "opentopography" -> "download_dem_data_opentopography"
      [] source = "opentopography_lidar" ->
            "download_dem_data_opentopography_lidar"

\* the downloaders run() has called, as positions in trace
DownloaderCalls == {i \in 1 .. Len(trace) : trace[i] \in Downloaders}

\* the requests of the DEM downloaders, in order
DemLog ==
    SelectSeq(requests,
        LAMBDA r : \A i \in 1 .. Len(overpass_urls) : r.to # overpass_urls[i])

\* run() has gone through the dispatch on data_source
Dispatched ==
    /\ pc \notin {"geocode_address", "download_dem_data"}
    /\ ~(pc = "failed" /\ LastCalled = "geocode_address")

\* run() on a data source taken as unknown: ValueError, and no download,
\* load, carve, mesh or export step
RejectsSource ==
    pc \notin {"geocode_address", "download_dem_data"} =>
        /\ pc = "failed" /\ error = "ValueError"
        /\ trace = <<"geocode_address">> /\ requests = << >>
        /\ dem_file = "none" /\ heap = << >> /\ mesh = NoMesh
        /\ exported = "none"

\* run() on a data source taken as source: one downloader, and the load
\* only after its success
ServesSource(source) ==
    /\ Dispatched =>
          /\ Cardinality(DownloaderCalls) = 1
          /\ \A i \in DownloaderCalls : trace[i] = DownloaderOf(source)
    /\ (pc = "load_elevation_data" \/ Called("load_elevation_data")) =>
          /\ dem_file = "dem_data/terrain.tif"
          /\ DemLog # << >> /\ DemLog[Len(DemLog)].outcome = "ok"
    /\ (pc = "failed" /\ LastCalled \in Downloaders) =>
          /\ dem_file = "none" /\ error # "none"
          /\ ~Called("load_elevation_data")
          /\ \A i \in 1 .. Len(DemLog) : DemLog[i].outcome # "ok"

\* C19 as stated: a data_source other than 'srtm', 'py3dep',
\* 'opentopography', 'opentopography_lidar' makes run() raise ValueError
\* before any download, load, carve, mesh or export step; for one of these
\* four run() calls exactly one downloader, and load_elevation_data is
\* reached only after that downloader succeeded and set dem_file (after a
\* failed download run() has failed and dem_file is unset).
C19_Original ==
    IF config.data_source \in Recognized
    THEN ServesSource(config.data_source)
    ELSE RejectsSource

\* C19 as amended: the same, the data_source being compared after
\* lower-casing: 'SRTM' is served like 'srtm'.
C19_Amended ==
    IF Lower(config.data_source) \in Recognized
    THEN ServesSource(Lower(config.data_source))
    ELSE RejectsSource

C19_Witness ==
    /\ config.data_source = "SRTM"
    /\ Called("load_elevation_data")
    /\ trace[2] = "download_dem_data"
    /\ dem_file = "dem_data/terrain.tif"

\* run() has called the lidar downloader and it has returned or raised
LidarDone == Called("download_dem_data_opentopography_lidar")

\* C20: download_dem_data_opentopography_lidar makes the standard
\* OpenTopography request exactly when its lidar request failed with a
\* request error; it returns the file and sets dem_file exactly when one
\* of the two requests succeeded, raises when both failed, and without an
\* API key raises ValueError and makes no request.
C20_LidarFallback ==
    LidarDone =>
        \A D \in {DemLog} :
            IF ~config.opentopography_api_key
            THEN /\ D = << >>
                 /\ pc = "failed" /\ error = "ValueError"
                 /\ dem_file = "none"
            ELSE /\ Len(D) \in {1, 2}
                 /\ D[1].to = "opentopography/usgsdem"
                 /\ Len(D) = 2 <=> D[1].outcome = "RequestException"
                 /\ Len(D) = 2 => D[2].to = "opentopography/globaldem"
                 /\ (\E i \in 1 .. Len(D) : D[i].outcome = "ok")
                        <=> dem_file = "dem_data/terrain.tif"
                 /\ (\E i \in 1 .. Len(D) : D[i].outcome = "ok")
                        <=> ~(pc = "failed" /\ LastCalled
                                 = "download_dem_data_opentopography_lidar")
                 /\ (\A i \in 1 .. Len(D) : D[i].outcome # "ok") =>
                        (Len(D) = 2 /\ pc = "failed"
                            /\ error = "RequestException")

C20_Witness ==
    /\ LidarDone /\ config.opentopography_api_key
    /\ Len(DemLog) = 2
    /\ DemLog[1].outcome = "RequestException" /\ DemLog[2].outcome = "ok"
    /\ dem_file = "dem_data/terrain.tif"
    /\ Called("load_elevation_data")

====
